---- MODULE Spec2Model ----
(***************************************************************************)
(* The Royal EV Charging Calculator (src/app.py).                          *)
(*                                                                         *)
(* Two parts of the program are modelled:                                  *)
(*   - calculate_billable_idle_hours(row), the idle-time billing rule      *)
(*     (a pure function of one session row), and                           *)
(*   - the per-station cost calculation loop that calls it for every row   *)
(*     of every 'QR Code Name' group and accumulates hours and cost.       *)
(*                                                                         *)
(* Timestamps are whole seconds since an epoch that is a midnight of the   *)
(* fixed local reference time; durations are whole seconds.  Money is      *)
(* kept in whole cents and energy in whole kWh, so the two rates 0.22 and  *)
(* 5.0 of the source appear as 22 and 500 cents.                           *)
(***************************************************************************)
EXTENDS Integers, Sequences, FiniteSets

VARIABLES
    pc,                      \* position of the program
    row,                     \* the session row being evaluated (line 112 / the argument of line 15)
    billable_hours,          \* the value returned by calculate_billable_idle_hours (line 114)
    group,                   \* the rows of the current 'QR Code Name' group (line 105)
    idx,                     \* number of rows of the group already iterated (line 112)
    total_power,             \* line 106
    power_cost,              \* line 107
    total_idle_cost,         \* lines 109, 117
    total_idle_hours_billed, \* lines 110, 116
    total_amount,            \* line 119
    results                  \* line 104, 121

vars == <<pc, row, billable_hours, group, idx, total_power, power_cost,
          total_idle_cost, total_idle_hours_billed, total_amount, results>>

----------------------------------------------------------------------------
(* Program constants *)

SecondsPerHour == 3600
Hours24 == 24
Hours31 == 31
PowerRateCents == 22
IdleRateCents == 500

SecondsPerDay == 24 * SecondsPerHour

(* Bounds of the model *)

Step == 1800            \* grid of the charge and idle durations, seconds
MaxChargeSteps == 28    \* charge durations 0 .. 14h
MaxIdleSteps == 62      \* idle durations up to 31h
MaxNegSteps == 2        \* malformed rows: idle durations down to -1h
MaxRows == 2            \* rows per station group
MaxGroups == 2          \* station groups per run

(* Inputs *)

\* Calendar days of the session start, as days since the epoch; 19723 is 2024-01-01.
Days == {0, 19723}

\* Times of day of the session start: 00:00, 01:00, 06:30, 08:00, 17:30, 23:00, 23:30.
StartTimesOfDay ==
    {0, 1 * 3600, 6 * 3600 + 1800, 8 * 3600, 17 * 3600 + 1800, 23 * 3600, 23 * 3600 + 1800}

SessionStarts == {d * SecondsPerDay + t : d \in Days, t \in StartTimesOfDay}
ChargeTimes == {k * Step : k \in 0..MaxChargeSteps}
IdleTimes == {k * Step : k \in (0 - MaxNegSteps)..MaxIdleSteps}

\* The rows the evaluator is checked on.
Rows == [start : SessionStarts, charge : ChargeTimes, idle : IdleTimes, power : {0}]

\* The rows the cost loop is checked on: three well-formed sessions and a malformed one.
LoopRows ==
    { [start |-> 8 * 3600,         charge |-> 0,    idle |-> 30 * 3600, power |-> 10],
      [start |-> 8 * 3600,         charge |-> 1800, idle |-> 2 * 3600,  power |-> 0],
      [start |-> 23 * 3600 + 1800, charge |-> 0,    idle |-> 8 * 3600,  power |-> 3],
      [start |-> 8 * 3600,         charge |-> 0,    idle |-> 0 - 3600,  power |-> 1] }

NoRow == [start |-> 0, charge |-> 0, idle |-> 0, power |-> 0]

RECURSIVE SeqsUpTo(_, _)
SeqsUpTo(S, n) ==
    IF n = 0 THEN {<<>>}
    ELSE LET shorter == SeqsUpTo(S, n - 1)
         IN shorter \cup {Append(s, x) : s \in {t \in shorter : Len(t) = n - 1}, x \in S}

\* groupby never yields an empty group.
Groups == SeqsUpTo(LoopRows, MaxRows) \ {<<>>}

----------------------------------------------------------------------------
(* calculate_billable_idle_hours *)

Max(a, b) == IF a >= b THEN a ELSE b

ChargeEnd(r) == r.start + r.charge
SessionEnd(r) == ChargeEnd(r) + r.idle

MidnightStartOfDay(session_start) == session_start - (session_start % SecondsPerDay)

Hour24FromStartOfDay(session_start) ==
    MidnightStartOfDay(session_start) + Hours24 * SecondsPerHour

Hour31_OneHourEarly(session_start) ==
    MidnightStartOfDay(session_start) + (Hours31 - 1) * SecondsPerHour

Hour31FromStartOfDay(session_start) ==
    MidnightStartOfDay(session_start) + Hours31 * SecondsPerHour

EarlyReturnHours_Ceil(idle_time_seconds) ==
    (idle_time_seconds + SecondsPerHour - 1) \div SecondsPerHour

\* line 46: int(idle_time_seconds // 3600); // and \div both floor.
EarlyReturnHours(idle_time_seconds) == idle_time_seconds \div SecondsPerHour

BeforeMidnightStep_Unguarded(hours, charge_end, h24) ==
    hours + ((h24 - charge_end) \div SecondsPerHour)

\* lines 51-55
BeforeMidnightStep(hours, charge_end, h24) ==
    IF charge_end < h24
    THEN hours + (Max(0, h24 - charge_end) \div SecondsPerHour)
    ELSE hours

After31Step_FromMark(hours, charge_end, session_end, h31) ==
    IF session_end > h31
    THEN hours + (Max(0, session_end - h31) \div SecondsPerHour)
    ELSE hours

After31Step_Overwrite(hours, charge_end, session_end, h31) ==
    IF session_end > h31
    THEN Max(0, session_end - Max(charge_end, h31)) \div SecondsPerHour
    ELSE hours

\* lines 60-69
After31Step(hours, charge_end, session_end, h31) ==
    IF session_end > h31
    THEN hours + (Max(0, session_end - Max(charge_end, h31)) \div SecondsPerHour)
    ELSE hours

\* lines 15-71
calculate_billable_idle_hours(r) ==
    LET charge_end == ChargeEnd(r)
        session_end == SessionEnd(r)
        h24 == Hour24FromStartOfDay(r.start)
        h31 == Hour31FromStartOfDay(r.start)
    IN  IF session_end <= h24
        THEN EarlyReturnHours(r.idle)
        ELSE After31Step(BeforeMidnightStep(0, charge_end, h24), charge_end, session_end, h31)

----------------------------------------------------------------------------
(* The cost calculation loop *)

RECURSIVE SumPower(_)
SumPower(g) == IF g = <<>> THEN 0 ELSE Head(g).power + SumPower(Tail(g))

PowerCost(power) == power * PowerRateCents

AddIdleCost_FlatFee(cost, hours) == cost + IdleRateCents

\* line 117
AddIdleCost(cost, hours) == cost + hours * IdleRateCents

Summary(name) ==
    [name |-> name,
     power |-> total_power,
     power_cost |-> power_cost,
     hours |-> total_idle_hours_billed,
     idle_cost |-> total_idle_cost,
     amount |-> power_cost + total_idle_cost]

----------------------------------------------------------------------------
(* Specification of the evaluator alone: one call on one row *)

InitEval ==
    /\ pc = "call"
    /\ row \in Rows
    /\ billable_hours = 0
    /\ group = <<>>
    /\ idx = 0
    /\ total_power = 0
    /\ power_cost = 0
    /\ total_idle_cost = 0
    /\ total_idle_hours_billed = 0
    /\ total_amount = 0
    /\ results = <<>>

\* The function has no raise statement: every call returns.
Evaluate ==
    /\ pc = "call"
    /\ billable_hours' = calculate_billable_idle_hours(row)
    /\ pc' = "returned"
    /\ UNCHANGED <<row, group, idx, total_power, power_cost, total_idle_cost,
                   total_idle_hours_billed, total_amount, results>>

NextEval == Evaluate

SpecEval == InitEval /\ [][NextEval]_vars

----------------------------------------------------------------------------
(* Specification of the cost calculation loop *)

Init ==
    /\ pc = "groups"
    /\ row = NoRow
    /\ billable_hours = 0
    /\ group = <<>>
    /\ idx = 0
    /\ total_power = 0
    /\ power_cost = 0
    /\ total_idle_cost = 0
    /\ total_idle_hours_billed = 0
    /\ total_amount = 0
    /\ results = <<>>

\* lines 105-110: the next group of the groupby
StartGroup ==
    /\ pc = "groups"
    /\ Len(results) < MaxGroups
    /\ \E g \in Groups :
          /\ group' = g
          /\ total_power' = SumPower(g)
          /\ power_cost' = PowerCost(SumPower(g))
    /\ total_idle_cost' = 0
    /\ total_idle_hours_billed' = 0
    /\ idx' = 0
    /\ pc' = "rows"
    /\ UNCHANGED <<row, billable_hours, total_amount, results>>

\* lines 112-117: one iteration of the row loop
ProcessRow ==
    /\ pc = "rows"
    /\ idx < Len(group)
    /\ row' = group[idx + 1]
    /\ billable_hours' = calculate_billable_idle_hours(group[idx + 1])
    /\ total_idle_hours_billed' =
          total_idle_hours_billed + calculate_billable_idle_hours(group[idx + 1])
    /\ total_idle_cost' =
          AddIdleCost(total_idle_cost, calculate_billable_idle_hours(group[idx + 1]))
    /\ idx' = idx + 1
    /\ UNCHANGED <<pc, group, total_power, power_cost, total_amount, results>>

\* lines 119-128: the row loop is exhausted
FinishGroup ==
    /\ pc = "rows"
    /\ idx = Len(group)
    /\ total_amount' = power_cost + total_idle_cost
    /\ results' = Append(results, Summary(Len(results) + 1))
    /\ pc' = "groups"
    /\ UNCHANGED <<row, billable_hours, group, idx, total_power, power_cost,
                   total_idle_cost, total_idle_hours_billed>>

\* lines 131-144: the groupby is exhausted; the table or the warning is shown
Display ==
    /\ pc = "groups"
    /\ pc' = IF results # <<>> THEN "dataframe" ELSE "warning"
    /\ UNCHANGED <<row, billable_hours, group, idx, total_power, power_cost,
                   total_idle_cost, total_idle_hours_billed, total_amount, results>>

Next == StartGroup \/ ProcessRow \/ FinishGroup \/ Display

Spec == Init /\ [][Next]_vars

----------------------------------------------------------------------------
(* The terms the properties are stated in, taken from the policy's wording *)

Returned == pc = "returned"
WellFormed(r) == r.charge >= 0 /\ r.idle >= 0

\* Midnight of the session start's calendar date, + 24h and + 31h.
H24(r) == (r.start \div 86400) * 86400 + 24 * 3600
H31(r) == (r.start \div 86400) * 86400 + 31 * 3600

Min(a, b) == IF a <= b THEN a ELSE b

\* Seconds of [charge_end, idle_end) before H24, plus those at or after H31.
ChargeableSeconds(r) ==
    Max(0, Min(SessionEnd(r), H24(r)) - ChargeEnd(r))
    + Max(0, SessionEnd(r) - Max(ChargeEnd(r), H31(r)))

WithIdle(r, d) == [r EXCEPT !.idle = d]

RECURSIVE SumHours(_)
SumHours(g) ==
    IF g = <<>> THEN 0 ELSE calculate_billable_idle_hours(Head(g)) + SumHours(Tail(g))

TypeOK ==
    /\ pc \in {"call", "returned", "raised", "groups", "rows", "dataframe", "warning"}
    /\ row \in Rows \cup LoopRows \cup {NoRow}
    /\ billable_hours \in Int
    /\ idx \in 0..Len(group)
    /\ Len(results) <= MaxGroups

----------------------------------------------------------------------------
(* C1: for every well-formed session the returned hours are the chargeable *)
(* seconds (before H24 plus at or after H31) summed first and floored      *)
(* once: floor(total_chargeable_seconds / 3600).                           *)
C1_FlooredOnce ==
    (Returned /\ WellFormed(row)) =>
        billable_hours = ChargeableSeconds(row) \div 3600

(* C2: a row with idle_end < charge_end is reported as an input-contract   *)
(* error; the call never returns a number for it.                          *)
C2_MalformedReportsError ==
    (pc # "call" /\ row.idle < 0) => pc = "raised"

(* C3: for every well-formed session the returned value is a non-negative  *)
(* integer, on every path through the function.                            *)
C3_NonNegative ==
    (Returned /\ WellFormed(row)) => billable_hours \in Nat

\* The path on which both terms are added has returned.
C3_Witness ==
    /\ Returned /\ WellFormed(row)
    /\ ChargeEnd(row) < H24(row)
    /\ SessionEnd(row) > H31(row)
    /\ billable_hours > 0

(* C4: a session with idle duration 0 is billed 0 hours, wherever its      *)
(* charge_end falls (before H24, inside [H24, H31), after H31).            *)
C4_ZeroIdleIsFree ==
    (Returned /\ row.idle = 0) => billable_hours = 0

\* A zero-idle session whose charge ends after H31 has returned.
C4_Witness ==
    /\ Returned /\ row.idle = 0
    /\ ChargeEnd(row) >= H31(row) + 3600

(* C5: idle time inside [H24, H31) is never billed: for a fixed start and  *)
(* charge_end every idle_end in [H24, H31] gives the same result, which is *)
(* 0 when charge_end >= H24; and the session starting 2024-01-01 08:00     *)
(* with charge 0 and 30h idle is billed 16 + 7 = 23 hours.                 *)
C5_GapIsFree ==
    (Returned /\ WellFormed(row)) =>
        /\ (H24(row) <= SessionEnd(row) /\ SessionEnd(row) <= H31(row)) =>
              /\ \A d \in IdleTimes :
                    (/\ d >= 0
                     /\ H24(row) <= ChargeEnd(row) + d
                     /\ ChargeEnd(row) + d <= H31(row))
                    => calculate_billable_idle_hours(WithIdle(row, d)) = billable_hours
              /\ ChargeEnd(row) >= H24(row) => billable_hours = 0
        /\ (row.start = 19723 * 86400 + 8 * 3600 /\ row.charge = 0 /\ row.idle = 30 * 3600)
              => billable_hours = 23

\* A session that idled from before midnight into the gap has returned with hours billed.
C5_Witness ==
    /\ Returned /\ WellFormed(row)
    /\ ChargeEnd(row) < H24(row)
    /\ H24(row) + 3600 <= SessionEnd(row) /\ SessionEnd(row) < H31(row)
    /\ billable_hours > 0

\* The idle span lies inside [00:00, 07:00) of the calendar day that starts at midnight m.
InFreeWindowOfDay(r, m) ==
    /\ m <= ChargeEnd(r)
    /\ SessionEnd(r) <= m + 7 * 3600

(* C6 as stated: an idle span fully inside [00:00, 07:00) of a single      *)
(* calendar day yields 0 hours, the session start's own day included.      *)
C6_FreeWindowAnyDay ==
    (Returned /\ WellFormed(row)) =>
        \A k \in 0..2 :
            InFreeWindowOfDay(row, H24(row) + (k - 1) * 86400) => billable_hours = 0

(* C6 as amended: an idle span fully inside [00:00, 07:00) of the calendar *)
(* day after the session start's day (inside [H24, H31)) yields 0 hours    *)
(* regardless of its length; inside [00:00, 07:00) of the session start's  *)
(* own day it is billed floor(idle / 3600) hours.                          *)
C6_FreeWindowNextDay ==
    (Returned /\ WellFormed(row)) =>
        /\ InFreeWindowOfDay(row, H24(row)) => billable_hours = 0
        /\ InFreeWindowOfDay(row, H24(row) - 86400) => billable_hours = row.idle \div 3600

\* A session that idled for hours inside the next day's free window has returned.
C6_Witness ==
    /\ Returned /\ WellFormed(row)
    /\ InFreeWindowOfDay(row, H24(row))
    /\ row.idle >= 2 * 3600

(* C7: on a policy boundary the half-open convention decides: charge_end   *)
(* = H24 bills nothing before midnight; idle_end = H24 bills the whole     *)
(* span, floor((H24 - charge_end)/3600); idle_end = H31 bills nothing      *)
(* after H31; charge_end = H31 bills the whole span; and each result is    *)
(* floor(seconds of the span outside [H24, H31) / 3600).                   *)
C7_Boundaries ==
    (Returned /\ WellFormed(row)) =>
        /\ ChargeEnd(row) = H24(row) =>
              /\ billable_hours = Max(0, SessionEnd(row) - H31(row)) \div 3600
              /\ billable_hours = ChargeableSeconds(row) \div 3600
        /\ SessionEnd(row) = H24(row) =>
              /\ billable_hours = (H24(row) - ChargeEnd(row)) \div 3600
              /\ billable_hours = ChargeableSeconds(row) \div 3600
        /\ SessionEnd(row) = H31(row) =>
              /\ billable_hours = Max(0, H24(row) - ChargeEnd(row)) \div 3600
              /\ billable_hours = ChargeableSeconds(row) \div 3600
        /\ ChargeEnd(row) = H31(row) =>
              /\ billable_hours = row.idle \div 3600
              /\ billable_hours = ChargeableSeconds(row) \div 3600

\* A session charged until before midnight and idle exactly until H31 has returned.
C7_Witness ==
    /\ Returned /\ WellFormed(row)
    /\ SessionEnd(row) = H31(row)
    /\ ChargeEnd(row) < H24(row)
    /\ billable_hours > 0

(* C8: in the row loop the billed hours are the sum of the per-row hours   *)
(* processed so far and the idle cost is 5.00 times the billed hours; a    *)
(* finished group's total is power cost + idle cost with power cost 0.22   *)
(* times the group's summed power; nothing carries over between groups.    *)
C8_Accumulation ==
    /\ pc = "rows" =>
          /\ total_idle_hours_billed = SumHours(SubSeq(group, 1, idx))
          /\ total_idle_cost = 500 * total_idle_hours_billed
          /\ idx = 0 => (total_idle_hours_billed = 0 /\ total_idle_cost = 0)
    /\ (pc = "groups" /\ results # <<>>) =>
          /\ total_amount = power_cost + total_idle_cost
          /\ power_cost = 22 * SumPower(group)
          /\ total_idle_hours_billed = SumHours(group)
          /\ total_idle_cost = 500 * SumHours(group)
          /\ results[Len(results)].amount = 22 * SumPower(group) + 500 * SumHours(group)
          /\ results[Len(results)].hours = SumHours(group)

\* The second group is in its row loop, two rows done, after a first group that was billed.
C8_Witness ==
    /\ pc = "rows"
    /\ Len(results) = 1
    /\ results[1].hours > 0
    /\ idx = 2
    /\ total_idle_hours_billed > 0
    /\ total_idle_hours_billed # results[1].hours

(* C9: the result is monotonic in the idle duration: for a fixed start and *)
(* charge duration, d1 <= d2 (both >= 0) gives result(d1) <= result(d2).   *)
C9_Monotonic ==
    (Returned /\ WellFormed(row)) =>
        \A d \in IdleTimes :
            d >= row.idle => billable_hours <= calculate_billable_idle_hours(WithIdle(row, d))

\* A billed session that ended before H24 has returned, and a longer idle ends after H31.
C9_Witness ==
    /\ Returned /\ WellFormed(row)
    /\ SessionEnd(row) <= H24(row)
    /\ billable_hours >= 2
    /\ \E d \in IdleTimes : ChargeEnd(row) + d > H31(row)

(* C10: never more hours are billed than the idle period contains: the     *)
(* result is <= floor(idle / 3600), with equality when idle_end <= H24 or  *)
(* charge_end >= H31.                                                      *)
C10_AtMostIdle ==
    (Returned /\ WellFormed(row)) =>
        /\ billable_hours <= row.idle \div 3600
        /\ (SessionEnd(row) <= H24(row) \/ ChargeEnd(row) >= H31(row))
              => billable_hours = row.idle \div 3600

\* A session that lost hours to the gap has returned.
C10_Witness ==
    /\ Returned /\ WellFormed(row)
    /\ billable_hours > 0
    /\ billable_hours < row.idle \div 3600

====
